---------------------------- MODULE Spec2Model ----------------------------
(***************************************************************************)
(* Model of the build-assembly engine of backend.py (class Backend):       *)
(* the catalog and its normalization ranges, the weighted selector         *)
(* (_select_best_part_by_score), the tiered rule assembler                 *)
(* (recommend_builds_rule_based), the scenario smart assembler             *)
(* (generate_smart_recommendation_rule_based) and the stochastic search    *)
(* assembler (generate_ml_based_recommendations).                          *)
(*                                                                         *)
(* Numbers.  Prices, budgets and feature values are integers.  A test      *)
(* "price <= x * 0.4" of the code is written 100*price <= x*40: the two    *)
(* agree on every integer price and x of the bounded model.  A score of    *)
(* the weighted selector is the exact rational sum of the code, kept as    *)
(* an integer: the weights are in hundredths and the normalized values     *)
(* are multiplied by the common denominator ScoreDen.                      *)
(***************************************************************************)
EXTENDS Integers, Sequences, FiniteSets, TLC

VARIABLES
    parts_data,            \* self.parts_data: part type -> price-sorted table
    normalization_ranges,  \* self.normalization_ranges: <<type, column>> -> min/max
    ml_models,             \* self.ml_models: the scenarios whose model is loaded
    recommendations,       \* last call of recommend_builds_rule_based
    smart,                 \* last call of generate_smart_recommendation_rule_based
    sel,                   \* calls of _select_best_part_by_score on one table
    ml,                    \* the running/last call of generate_ml_based_recommendations
    app                    \* app.py: the budget entry and the smart-build worker thread

vars == <<parts_data, normalization_ranges, ml_models, recommendations, smart, sel, ml,
          app>>

\* Python's None: no build, no part, no score.
None == <<>>

\* The loop variable part_type before the loop is entered.
NoPartType == "none"

(***************************************************************************)
(* Bounds of the model.                                                    *)
(***************************************************************************)
MaxBudget == 20
MaxSamples == 2
MaxTopN == 2
MaxMlBudget == 12

(***************************************************************************)
(* backend.py:11-20, PART_FILES, in declaration order.                     *)
(***************************************************************************)
PART_FILES == <<"CPU", "GPU", "Motherboard", "RAM", "Storage", "PSU", "Case", "Cooler">>

PartTypes == {PART_FILES[k] : k \in 1..Len(PART_FILES)}

\* backend.py:52
scenarios == {"Gaming", "Workstation", "Content Creation", "Home Office", "General Use"}

(***************************************************************************)
(* Sequence helpers.                                                       *)
(***************************************************************************)
Range(s) == {s[k] : k \in 1..Len(s)}

RECURSIVE SumSet(_, _)
SumSet(S, f) ==
    IF S = {} THEN 0
    ELSE LET x == CHOOSE y \in S : TRUE IN f[x] + SumSet(S \ {x}, f)

RECURSIVE ProdSet(_, _)
ProdSet(S, f) ==
    IF S = {} THEN 1
    ELSE LET x == CHOOSE y \in S : TRUE IN f[x] * ProdSet(S \ {x}, f)

\* The subsequences of s (order kept) with at most n elements.
RECURSIVE SubSeqs(_, _)
SubSeqs(s, n) ==
    IF Len(s) = 0 \/ n = 0 THEN {<<>>}
    ELSE LET rest == SubSeqs(Tail(s), n)
             with == {<<Head(s)>> \o t : t \in SubSeqs(Tail(s), n - 1)}
         IN rest \cup with

(***************************************************************************)
(* The catalogs of the model.  _load_all_parts (backend.py:54-87) leaves   *)
(* each loaded table sorted by price; a part type whose file is missing    *)
(* is absent from parts_data and a file with a header only gives an empty  *)
(* table.  A table is a sequence of rows, a row a record of its columns.   *)
(* The tables are the non-empty subsequences of the pools below (the       *)
(* tables of CPU, Motherboard and GPU vary, alone or all eight cut to one  *)
(* row); one catalog has a Motherboard file without a socket column, and   *)
(* the degraded catalogs have one part type absent or empty.               *)
(***************************************************************************)
CpuPool ==
    << [name |-> "c1", price |-> 2, socket |-> "S1", speed |-> 1, coreCount |-> 1,
        threadCount |-> 1, power |-> 1],
       [name |-> "c2", price |-> 3, socket |-> "S2", speed |-> 3, coreCount |-> 3,
        threadCount |-> 2, power |-> 2],
       [name |-> "c3", price |-> 5, socket |-> "S1", speed |-> 2, coreCount |-> 4,
        threadCount |-> 8, power |-> 3] >>

MotherboardPool ==
    << [name |-> "m1", price |-> 1, socket |-> "S1", sataPorts |-> 4, pcieSlots |-> 2,
        usbPorts |-> 6],
       [name |-> "m2", price |-> 2, socket |-> "S2", sataPorts |-> 6, pcieSlots |-> 3,
        usbPorts |-> 8],
       [name |-> "m3", price |-> 5, socket |-> "S1", sataPorts |-> 7, pcieSlots |-> 4,
        usbPorts |-> 11] >>

GpuPool ==
    << [name |-> "g1", price |-> 1, VRAM |-> 2, power |-> 1],
       [name |-> "g2", price |-> 4, VRAM |-> 8, power |-> 3] >>

RamPool ==
    << [name |-> "r1", price |-> 1, size |-> 4],
       [name |-> "r2", price |-> 2, size |-> 16] >>

StoragePool == << [name |-> "s1", price |-> 1, space |-> 1] >>

PsuPool == << [name |-> "p1", price |-> 1, power |-> 5] >>

CasePool == << [name |-> "k1", price |-> 1] >>

CoolerPool == << [name |-> "o1", price |-> 1] >>

Pool(part_type) ==
    CASE part_type = "CPU" -> CpuPool
      [] part_type = "GPU" -> GpuPool
      [] part_type = "Motherboard" -> MotherboardPool
      [] part_type = "RAM" -> RamPool
      [] part_type = "Storage" -> StoragePool
      [] part_type = "PSU" -> PsuPool
      [] part_type = "Case" -> CasePool
      [] part_type = "Cooler" -> CoolerPool

Tables(part_type) == SubSeqs(Pool(part_type), Len(Pool(part_type))) \ {<<>>}

PoolCatalog == [part_type \in PartTypes |-> Pool(part_type)]

\* A Motherboard file that has no socket column.
NoSocketCatalog ==
    [PoolCatalog EXCEPT !["Motherboard"] =
        << [name |-> "m1", price |-> 1, sataPorts |-> 4, pcieSlots |-> 2, usbPorts |-> 6] >>]

FullCatalogs ==
    { [PoolCatalog EXCEPT !["CPU"] = c, !["Motherboard"] = m, !["GPU"] = g] :
        c \in Tables("CPU"), m \in Tables("Motherboard"), g \in Tables("GPU") }

Degrade(catalog, part_type, how) ==
    IF how = "absent"
    THEN [t \in DOMAIN catalog \ {part_type} |-> catalog[t]]
    ELSE [catalog EXCEPT ![part_type] = <<>>]

DegradedCatalogs ==
    { Degrade(PoolCatalog, part_type, how) :
        part_type \in PartTypes, how \in {"absent", "empty"} }

\* One row in every table.
SingleCatalogs ==
    { [part_type \in PartTypes |->
          CASE part_type = "CPU" -> <<c>>
            [] part_type = "Motherboard" -> <<m>>
            [] part_type = "GPU" -> <<g>>
            [] part_type = "RAM" -> <<r>>
            [] OTHER -> SubSeq(Pool(part_type), 1, 1)] :
        c \in Range(CpuPool), m \in Range(MotherboardPool),
        g \in Range(GpuPool), r \in Range(RamPool) }

\* A catalog with a dear GPU, one mainboard and one RAM row: a strategy that
\* spends less on the CPU can afford the dear GPU and then runs out.
DearGpuCatalog ==
    [PoolCatalog EXCEPT
        !["GPU"] = <<GpuPool[1], [name |-> "g3", price |-> 8, VRAM |-> 16, power |-> 4]>>,
        !["Motherboard"] = SubSeq(MotherboardPool, 1, 1),
        !["RAM"] = SubSeq(RamPool, 1, 1)]

Catalogs ==
    FullCatalogs \cup SingleCatalogs \cup DegradedCatalogs
        \cup {NoSocketCatalog, DearGpuCatalog}

(***************************************************************************)
(* Tables.                                                                 *)
(***************************************************************************)
\* df[df['price'] <= limit * pct / 100]
PriceAtMost(df, limit, pct) == SelectSeq(df, LAMBDA row : 100 * row.price <= limit * pct)

\* A column lookup df[col] raises KeyError when the table has no such column;
\* an empty table is one read from a file that holds the header only.
HasColumn(df, col) == \A k \in 1..Len(df) : col \in DOMAIN df[k]

\* df[df['socket'] == socket]
SocketIs(df, socket) == SelectSeq(df, LAMBDA row : row.socket = socket)

\* The columns of a row that hold numbers.
NumericColumns(row) == DOMAIN row \ {"name", "socket"}

MinOf(S) == CHOOSE x \in S : \A y \in S : x <= y
MaxOf(S) == CHOOSE x \in S : \A y \in S : x >= y

(***************************************************************************)
(* backend.py:89-106, _precompute_normalization_ranges: min and max of     *)
(* every numeric column that holds a value, keyed "<part_type>_<col>".     *)
(***************************************************************************)
ColumnValues(df, col) == {df[k][col] : k \in {j \in 1..Len(df) : col \in NumericColumns(df[j])}}

precompute_normalization_ranges(data) ==
    LET cols(df) == UNION {NumericColumns(df[k]) : k \in 1..Len(df)}
        keys == UNION {{<<part_type, col>> : col \in cols(data[part_type])} :
                          part_type \in DOMAIN data}
    IN [key \in keys |->
           [min |-> MinOf(ColumnValues(data[key[1]], key[2])),
            max |-> MaxOf(ColumnValues(data[key[1]], key[2]))]]

(***************************************************************************)
(* backend.py:211-256, feature_weights, in hundredths.                     *)
(***************************************************************************)
\* A price weight of the wrong sign.
PriceOnlyPositive == [price |-> 100]

\* {"price": -1.0}
PriceOnly == [price |-> -100]

feature_weights ==
    "Gaming" :>
        [CPU |-> [speed |-> 30, coreCount |-> 20, power |-> 10, price |-> -40],
         GPU |-> [VRAM |-> 40, power |-> 20, price |-> -40],
         RAM |-> [size |-> 30, price |-> -70],
         Storage |-> [space |-> 10, price |-> -90],
         PSU |-> [power |-> 30, price |-> -70],
         Motherboard |-> PriceOnly, Case |-> PriceOnly, Cooler |-> PriceOnly]
    @@ "Workstation" :>
        [CPU |-> [coreCount |-> 40, threadCount |-> 30, speed |-> 20, power |-> 10,
                  price |-> -50],
         GPU |-> [VRAM |-> 20, price |-> -80],
         RAM |-> [size |-> 60, price |-> -40],
         Storage |-> [space |-> 50, price |-> -50],
         PSU |-> [power |-> 20, price |-> -80],
         Motherboard |-> PriceOnly, Case |-> PriceOnly, Cooler |-> PriceOnly]
    @@ "Content Creation" :>
        [CPU |-> [coreCount |-> 35, threadCount |-> 35, speed |-> 10, price |-> -40],
         GPU |-> [VRAM |-> 30, price |-> -70],
         RAM |-> [size |-> 50, price |-> -50],
         Storage |-> [space |-> 40, price |-> -60],
         PSU |-> [power |-> 20, price |-> -80],
         Motherboard |-> PriceOnly, Case |-> PriceOnly, Cooler |-> PriceOnly]
    @@ "Home Office" :>
        [CPU |-> [speed |-> 20, coreCount |-> 10, price |-> -70],
         GPU |-> PriceOnly,
         RAM |-> [size |-> 30, price |-> -70],
         Storage |-> [space |-> 20, price |-> -80],
         PSU |-> [power |-> 10, price |-> -90],
         Motherboard |-> PriceOnly, Case |-> PriceOnly, Cooler |-> PriceOnly]
    @@ "General Use" :>
        [CPU |-> [speed |-> 20, coreCount |-> 10, price |-> -70],
         GPU |-> PriceOnly,
         RAM |-> [size |-> 30, price |-> -70],
         Storage |-> [space |-> 20, price |-> -80],
         PSU |-> [power |-> 10, price |-> -90],
         Motherboard |-> PriceOnly, Case |-> PriceOnly, Cooler |-> PriceOnly]

\* A lookup whose default is the Gaming weights.
WeightsOfDefaultGaming(scenario) ==
    IF scenario \in DOMAIN feature_weights THEN feature_weights[scenario]
    ELSE feature_weights["Gaming"]

\* backend.py:259, feature_weights.get(scenario, feature_weights["General Use"])
WeightsOf(scenario) ==
    IF scenario \in DOMAIN feature_weights THEN feature_weights[scenario]
    ELSE feature_weights["General Use"]

(***************************************************************************)
(* backend.py:575-634, _select_best_part_by_score.                         *)
(*                                                                         *)
(* ScoreDen is the common denominator of the normalized values of one      *)
(* call: twice the product of the positive ranges of the weighted          *)
(* features.  A score s of the code is kept as s * 100 * ScoreDen.         *)
(***************************************************************************)
RangeKey(part_type, feature) == <<part_type, feature>>

RangeWidth(ranges, key) == ranges[key].max - ranges[key].min

ScoreDen(part_weights, ranges, part_type) ==
    LET wide == {f \in DOMAIN part_weights :
                    /\ RangeKey(part_type, f) \in DOMAIN ranges
                    /\ RangeWidth(ranges, RangeKey(part_type, f)) > 0}
    IN 2 * ProdSet(wide, [f \in wide |-> RangeWidth(ranges, RangeKey(part_type, f))])

\* The normalization without the test of line 611: a range of width 0 gives
\* 0 where the code gives 0.5.
NormalizedValNoMidRange(val, key, ranges, den) ==
    IF key \in DOMAIN ranges
    THEN IF RangeWidth(ranges, key) > 0
         THEN (val - ranges[key].min) * (den \div RangeWidth(ranges, key))
         ELSE 0
    ELSE val * den

\* backend.py:607-620: the normalized value of val, times den.
NormalizedVal(val, key, ranges, den) ==
    IF key \in DOMAIN ranges
    THEN IF RangeWidth(ranges, key) > 0
         THEN (val - ranges[key].min) * (den \div RangeWidth(ranges, key))
         ELSE den \div 2
    ELSE val * den

\* backend.py:599-622: the score of one row.  A feature contributes when the
\* row holds a number for it (part.get(feature) is not None, numeric, not NaN).
PartScore(part, part_weights, ranges, part_type, den) ==
    LET scored == {f \in DOMAIN part_weights : f \in NumericColumns(part)}
    IN SumSet(scored,
              [f \in scored |->
                  NormalizedVal(part[f], RangeKey(part_type, f), ranges, den)
                      * part_weights[f]])

\* backend.py:597-623: the list scores, one entry per row.
Scores(parts_df, part_weights, ranges, part_type) ==
    LET den == ScoreDen(part_weights, ranges, part_type)
    IN [k \in 1..Len(parts_df) |->
           PartScore(parts_df[k], part_weights, ranges, part_type, den)]

\* backend.py:627: parts_df.loc[:, 'score'] = scores.  The table the caller
\* passed is changed in place: this is the table after the call.
ScoredTable(parts_df, part_weights, ranges, part_type) ==
    LET sc == Scores(parts_df, part_weights, ranges, part_type)
    IN [k \in 1..Len(parts_df) |-> ("score" :> sc[k]) @@ parts_df[k]]

\* A selector that takes the row it returns out of the table.
SelectedTableWithoutChosen(parts_df, part_weights, ranges, part_type) ==
    IF Len(parts_df) = 0 THEN parts_df
    ELSE LET table == ScoredTable(parts_df, part_weights, ranges, part_type)
             best == CHOOSE k \in 1..Len(table) :
                         \A j \in 1..Len(table) : table[j].score <= table[k].score
         IN SubSeq(table, 1, best - 1) \o SubSeq(table, best + 1, Len(table))

\* The table parts_df after the call: line 594 returns before an empty table
\* is touched.
SelectedTable(parts_df, part_weights, ranges, part_type) ==
    IF Len(parts_df) = 0 THEN parts_df
    ELSE ScoredTable(parts_df, part_weights, ranges, part_type)

\* A candidate table that is a view of the table of the catalog it was
\* filtered from: it shares that table's storage.
SharesCatalogTable(part_type) == part_type

\* backend.py:274, 278, 281, 299, 307, 312, 352, 358: every table given to the
\* selector is made by df[mask].copy() or df.sort_values(...).head(1).copy(),
\* a new object: it shares storage with no table of the catalog.  The value
\* is the part type of the catalog table shared with, or NoPartType.
Shares(part_type) == NoPartType

\* backend.py:627 seen from the catalog: parts_df.loc[:, 'score'] = scores
\* writes the rows of the table after the call (scored) into the table of
\* data that parts_df shares storage with, if there is one.
WriteThrough(data, owner, scored) ==
    IF owner \notin DOMAIN data THEN data
    ELSE [data EXCEPT ![owner] =
             [k \in 1..Len(@) |->
                 IF \E j \in 1..Len(scored) : scored[j].name = @[k].name
                 THEN scored[CHOOSE j \in 1..Len(scored) : scored[j].name = @[k].name]
                 ELSE @[k]]]

\* The catalog after the selector calls of one smart call, whose tables
\* after the calls are scored[part_type].
RECURSIVE WriteThroughAll(_, _, _)
WriteThroughAll(data, types, scored) ==
    IF types = {} THEN data
    ELSE LET part_type == CHOOSE t \in types : TRUE
         IN WriteThroughAll(WriteThrough(data, Shares(part_type), scored[part_type]),
                            types \ {part_type}, scored)

\* An idxmax that gives the last row of maximal score.
IdxMaxLast(table) ==
    CHOOSE k \in 1..Len(table) :
        /\ \A j \in 1..Len(table) : table[j].score <= table[k].score
        /\ \A j \in (k + 1)..Len(table) : table[j].score < table[k].score

\* backend.py:629: parts_df['score'].idxmax(), the first row of maximal score.
IdxMax(table) ==
    CHOOSE k \in 1..Len(table) :
        /\ \A j \in 1..Len(table) : table[j].score <= table[k].score
        /\ \A j \in 1..(k - 1) : table[j].score < table[k].score

\* backend.py:594-629.  The list scores is empty only for an empty table, which
\* line 594 has returned for, so the branch of lines 630-634 is never taken.
select_best_part_by_score(parts_df, part_weights, ranges, part_type) ==
    IF Len(parts_df) = 0 THEN None
    ELSE LET table == ScoredTable(parts_df, part_weights, ranges, part_type)
         IN table[IdxMax(table)]

(***************************************************************************)
(* backend.py:129-191, recommend_builds_rule_based.                        *)
(***************************************************************************)
\* backend.py:156: self.parts_data.items(), the loaded types in file order.
LoadedTypes(data) == SelectSeq(PART_FILES, LAMBDA part_type : part_type \in DOMAIN data)

\* Line 158 with a strict comparison.
TierAffordableStrict(df, temp_budget) ==
    SelectSeq(df, LAMBDA row : row.price < temp_budget)

\* backend.py:158: df[df['price'] <= temp_budget]
TierAffordable(df, temp_budget) == PriceAtMost(df, temp_budget, 100)

\* The selection with the Budget strategy taking the dearest affordable row.
TierSelectBudgetDearest(i, affordable_parts) ==
    IF i = 1 /\ Len(affordable_parts) > 1
    THEN affordable_parts[(Len(affordable_parts) \div 2) + 1]
    ELSE affordable_parts[Len(affordable_parts)]

\* The selection with the Balanced strategy taking the lower middle row.
TierSelectLowerMiddle(i, affordable_parts) ==
    IF i = 0 THEN affordable_parts[1]
    ELSE IF i = 1
         THEN affordable_parts[((Len(affordable_parts) - 1) \div 2) + 1]
         ELSE affordable_parts[Len(affordable_parts)]

\* backend.py:166-175: the row strategy i takes from the affordable rows.
TierSelect(i, affordable_parts) ==
    IF i = 0 THEN affordable_parts[1]
    ELSE IF i = 1
         THEN IF Len(affordable_parts) > 1
              THEN affordable_parts[(Len(affordable_parts) \div 2) + 1]
              ELSE affordable_parts[1]
         ELSE affordable_parts[Len(affordable_parts)]

\* TierLoop without line 180: temp_budget is not reduced.
RECURSIVE TierLoopKeepsBudget(_, _, _, _, _, _)
TierLoopKeepsBudget(i, types, data, temp_budget, current_build, current_total_cost) ==
    IF Len(types) = 0
    THEN [all_parts_found |-> TRUE, parts |-> current_build, cost |-> current_total_cost]
    ELSE LET affordable_parts == TierAffordable(data[Head(types)], temp_budget)
         IN IF Len(affordable_parts) = 0
            THEN [all_parts_found |-> FALSE, parts |-> current_build,
                  cost |-> current_total_cost]
            ELSE LET selected_part == TierSelect(i, affordable_parts)
                 IN TierLoopKeepsBudget(i, Tail(types), data, temp_budget,
                             (Head(types) :> selected_part) @@ current_build,
                             current_total_cost + selected_part.price)

\* backend.py:156-180: the loop over the part types, from types on.
RECURSIVE TierLoop(_, _, _, _, _, _)
TierLoop(i, types, data, temp_budget, current_build, current_total_cost) ==
    IF Len(types) = 0
    THEN [all_parts_found |-> TRUE, parts |-> current_build, cost |-> current_total_cost]
    ELSE LET affordable_parts == TierAffordable(data[Head(types)], temp_budget)
         IN IF Len(affordable_parts) = 0
            THEN [all_parts_found |-> FALSE, parts |-> current_build,
                  cost |-> current_total_cost]
            ELSE LET selected_part == TierSelect(i, affordable_parts)
                 IN TierLoop(i, Tail(types), data, temp_budget - selected_part.price,
                             (Head(types) :> selected_part) @@ current_build,
                             current_total_cost + selected_part.price)

\* backend.py:184
BuildType(i) == <<"Budget Build", "Balanced Build", "Performance Build">>[i + 1]

\* The loop over the strategies left at the first strategy that fails.
RECURSIVE TierBuildsStopAtFailure(_, _, _)
TierBuildsStopAtFailure(i, data, budget) ==
    IF i > 2 THEN <<>>
    ELSE LET b == TierLoop(i, LoadedTypes(data), data, budget, <<>>, 0)
         IN IF b.all_parts_found
            THEN << [parts |-> b.parts, cost |-> b.cost,
                     remaining |-> budget - b.cost, type |-> BuildType(i)] >>
                     \o TierBuildsStopAtFailure(i + 1, data, budget)
            ELSE <<>>

\* backend.py:150-190: the builds strategies i..2 append, in order.
RECURSIVE TierBuilds(_, _, _)
TierBuilds(i, data, budget) ==
    IF i > 2 THEN <<>>
    ELSE LET b == TierLoop(i, LoadedTypes(data), data, budget, <<>>, 0)
             this == IF b.all_parts_found
                     THEN << [parts |-> b.parts, cost |-> b.cost,
                              remaining |-> budget - b.cost, type |-> BuildType(i)] >>
                     ELSE <<>>
         IN this \o TierBuilds(i + 1, data, budget)

\* Line 145 without its test.
AllLoadedUnchecked(data) == TRUE

\* backend.py:145: every part type of PART_FILES is loaded.
AllLoaded(data) == \A part_type \in PartTypes : part_type \in DOMAIN data

recommend_builds_rule_based(data, budget) ==
    IF ~AllLoaded(data) THEN <<>> ELSE TierBuilds(0, data, budget)

(***************************************************************************)
(* backend.py:193-388, generate_smart_recommendation_rule_based.           *)
(*                                                                         *)
(* The call is one step.  Its value is the record of the locals at the     *)
(* return: ret (None or the build), line (the line of the return           *)
(* statement taken), raised (a KeyError left the call), and                *)
(* recommended_build, current_cost, remaining_budget and part_type as      *)
(* they stand there.  remaining_budget is unbound before line 292; the     *)
(* record holds budget until then.                                         *)
(***************************************************************************)
\* backend.py:333
part_types_order == <<"GPU", "RAM", "Storage", "PSU", "Case", "Cooler">>

\* backend.py:335-341, budget_allocation_priority, in hundredths.
budget_allocation_priority ==
    "Gaming" :>
        [GPU |-> 50, RAM |-> 20, Storage |-> 15, PSU |-> 10, Case |-> 5, Cooler |-> 0]
    @@ "Workstation" :>
        [GPU |-> 15, RAM |-> 30, Storage |-> 30, PSU |-> 15, Case |-> 5, Cooler |-> 5]
    @@ "Content Creation" :>
        [GPU |-> 25, RAM |-> 25, Storage |-> 25, PSU |-> 15, Case |-> 5, Cooler |-> 5]
    @@ "Home Office" :>
        [GPU |-> 5, RAM |-> 20, Storage |-> 20, PSU |-> 10, Case |-> 10, Cooler |-> 5]
    @@ "General Use" :>
        [GPU |-> 10, RAM |-> 25, Storage |-> 25, PSU |-> 15, Case |-> 10, Cooler |-> 5]

\* backend.py:343
AllocationsOf(scenario) ==
    IF scenario \in DOMAIN budget_allocation_priority
    THEN budget_allocation_priority[scenario]
    ELSE budget_allocation_priority["General Use"]

\* backend.py:348, current_allocations.get(part_type, 0.1)
AllocationPct(scenario, part_type) ==
    IF part_type \in DOMAIN AllocationsOf(scenario)
    THEN AllocationsOf(scenario)[part_type] ELSE 10

\* weights.get(part_type, {})
PartWeights(scenario, part_type) ==
    IF part_type \in DOMAIN WeightsOf(scenario) THEN WeightsOf(scenario)[part_type]
    ELSE <<>>

\* df.sort_values(by='price').head(1) of a price-sorted table
Cheapest(df) == IF Len(df) = 0 THEN <<>> ELSE <<df[1]>>

SmartLocals(scenario, budget) ==
    [scenario |-> scenario, budget |-> budget, recommended_build |-> <<>>,
     current_cost |-> 0, remaining_budget |-> budget, part_type |-> NoPartType,
     line |-> 0, ret |-> None, raised |-> FALSE, scored |-> <<>>]

\* A return that hands out the parts chosen so far where the code returns None.
SmartReturnPartial(loc, line, value) ==
    [loc EXCEPT !.line = line,
                !.ret = IF value = None THEN loc.recommended_build ELSE value]

\* return value, at the given line of the source
SmartReturn(loc, line, value) == [loc EXCEPT !.line = line, !.ret = value]

SmartRaise(loc, line) == [loc EXCEPT !.line = line, !.raised = TRUE]

\* recommended_build[part_type] = part; current_cost += price;
\* remaining_budget = budget - current_cost  (lines 290-292, 323-325, 371-373)
SmartAdd(loc, part_type, part) ==
    [loc EXCEPT !.recommended_build = (part_type :> part) @@ @,
                !.current_cost = @ + part.price,
                !.remaining_budget = loc.budget - (loc.current_cost + part.price)]

\* The selector was called on parts_df (lines 288, 321, 369): scored keeps, per
\* part type, the table parts_df as the call left it.
SmartScored(loc, part_type, parts_df, ranges) ==
    [loc EXCEPT !.scored =
        (part_type :> SelectedTable(parts_df, PartWeights(loc.scenario, part_type),
                                    ranges, part_type)) @@ @]

\* The processor stage without its first tier: 0.4 of the budget at once.
SmartCpuCandidatesWide(cpu_df, budget) ==
    LET second == PriceAtMost(cpu_df, budget, 40)
    IN IF Len(second) = 0 /\ Len(cpu_df) # 0 /\ budget > 0 THEN Cheapest(cpu_df)
       ELSE second

\* backend.py:273-282: the processors the selector chooses from.
SmartCpuCandidates(cpu_df, budget) ==
    LET first == PriceAtMost(cpu_df, budget, 25)
    IN IF Len(first) = 0 /\ budget > 0
       THEN LET second == PriceAtMost(cpu_df, budget, 40)
            IN IF Len(second) = 0 /\ Len(cpu_df) # 0 THEN Cheapest(cpu_df) ELSE second
       ELSE first

\* The last resort without its socket filter.
SmartMotherboardLastResortAnySocket(motherboard_df, socket) == Cheapest(motherboard_df)

\* backend.py:310-312: the cheapest mainboard of the processor's socket.
SmartMotherboardLastResort(motherboard_df, socket) ==
    Cheapest(SocketIs(motherboard_df, socket))

\* The chain without its last resort.
SmartMotherboardCandidatesNoLastResort(motherboard_df, socket, remaining_budget) ==
    LET first == PriceAtMost(SocketIs(motherboard_df, socket), remaining_budget, 25)
    IN IF Len(first) = 0 /\ remaining_budget > 0
       THEN PriceAtMost(SocketIs(motherboard_df, socket), remaining_budget, 40)
       ELSE first

\* backend.py:295-316: the mainboards the selector chooses from; <<>> when
\* lines 316 or 318 return None.
SmartMotherboardCandidates(motherboard_df, socket, remaining_budget) ==
    LET first == PriceAtMost(SocketIs(motherboard_df, socket), remaining_budget, 25)
    IN IF Len(first) = 0 /\ remaining_budget > 0
       THEN LET second == PriceAtMost(SocketIs(motherboard_df, socket),
                                      remaining_budget, 40)
            IN IF Len(second) = 0 /\ Len(motherboard_df) # 0
               THEN SmartMotherboardLastResort(motherboard_df, socket)
               ELSE second
       ELSE first

\* The candidates without the allocated share: all rows within what remains.
SmartPartCandidatesWholeRemaining(df, remaining_budget, pct) ==
    PriceAtMost(df, remaining_budget, 100)

\* The candidates with the cheapest row as a last resort, whatever its price.
SmartPartCandidatesOrCheapest(df, remaining_budget, pct) ==
    LET first == PriceAtMost(df, remaining_budget, pct)
        second == PriceAtMost(df, remaining_budget, 100)
    IN IF Len(first) # 0 THEN first
       ELSE IF Len(second) # 0 THEN second ELSE Cheapest(df)

\* backend.py:348-358: the rows of a remaining part type the selector chooses
\* from.  When none is affordable line 362 assigns the cheapest row to
\* selected_part, but affordable_parts stays empty.
SmartPartCandidates(df, remaining_budget, pct) ==
    LET first == PriceAtMost(df, remaining_budget, pct)
    IN IF Len(first) = 0 THEN PriceAtMost(df, remaining_budget, 100) ELSE first

\* backend.py:345-380: the loop over part_types_order, from types on.
RECURSIVE SmartLoop(_, _, _, _)
SmartLoop(loc0, types, data, ranges) ==
    IF Len(types) = 0 THEN loc0
    ELSE
      LET part_type == Head(types)
          loc == [loc0 EXCEPT !.part_type = part_type]
      IN IF part_type \notin DOMAIN data THEN SmartReturn(loc, 380, None)
         ELSE
           LET df == data[part_type]
               affordable_parts ==
                   SmartPartCandidates(df, loc.remaining_budget,
                                       AllocationPct(loc.scenario, part_type))
           IN IF Len(affordable_parts) = 0
              THEN IF Len(df) = 0 THEN SmartReturn(loc, 365, None)
                   ELSE SmartReturn(loc, 378, None)
              ELSE
                LET selected_part ==
                        select_best_part_by_score(affordable_parts,
                            PartWeights(loc.scenario, part_type), ranges, part_type)
                IN SmartLoop(SmartAdd(SmartScored(loc, part_type, affordable_parts,
                                                  ranges),
                                      part_type, selected_part),
                             Tail(types), data, ranges)

\* backend.py:383-388
required_parts == {"CPU", "Motherboard", "RAM", "GPU", "Storage", "PSU"}

SmartFinish(loc) ==
    IF loc.line # 0 THEN loc
    ELSE IF \E part \in required_parts : part \notin DOMAIN loc.recommended_build
         THEN SmartReturn(loc, 386, None)
         ELSE SmartReturn(loc, 388, loc.recommended_build)

\* backend.py:294-329, after the processor was added to the build.
SmartMotherboard(loc, data, ranges) ==
    LET motherboard_df == data["Motherboard"]
        selected_cpu == loc.recommended_build["CPU"]
    IN IF ~HasColumn(motherboard_df, "socket") THEN SmartRaise(loc, 298)
       ELSE
         LET compatible_motherboards ==
                 SmartMotherboardCandidates(motherboard_df, selected_cpu.socket,
                                            loc.remaining_budget)
         IN IF Len(compatible_motherboards) = 0
            THEN IF /\ loc.remaining_budget > 0
                    /\ Len(PriceAtMost(SocketIs(motherboard_df, selected_cpu.socket),
                                       loc.remaining_budget, 40)) = 0
                    /\ Len(motherboard_df) # 0
                 THEN SmartReturn(loc, 316, None)
                 ELSE SmartReturn(loc, 318, None)
            ELSE
              LET selected_motherboard ==
                      select_best_part_by_score(compatible_motherboards,
                          PartWeights(loc.scenario, "Motherboard"), ranges, "Motherboard")
              IN SmartFinish(SmartLoop(
                     SmartAdd(SmartScored(loc, "Motherboard", compatible_motherboards,
                                          ranges),
                              "Motherboard", selected_motherboard),
                     part_types_order, data, ranges))

generate_smart_recommendation_rule_based(data, ranges, scenario, budget) ==
    LET loc == SmartLocals(scenario, budget)
    IN IF "CPU" \notin DOMAIN data \/ "Motherboard" \notin DOMAIN data
       THEN SmartReturn(loc, 269, None)
       ELSE
         LET affordable_cpus == SmartCpuCandidates(data["CPU"], budget)
         IN IF Len(affordable_cpus) = 0 THEN SmartReturn(loc, 285, None)
            ELSE
              LET selected_cpu ==
                      select_best_part_by_score(affordable_cpus,
                          PartWeights(scenario, "CPU"), ranges, "CPU")
              IN SmartMotherboard(
                     SmartAdd(SmartScored(loc, "CPU", affordable_cpus, ranges),
                              "CPU", selected_cpu),
                     data, ranges)

(***************************************************************************)
(* backend.py:390-525, generate_ml_based_recommendations, and              *)
(* backend.py:527-573, predict_build_score.                                *)
(*                                                                         *)
(* The call runs in steps; ml holds its arguments, its locals and pc, the  *)
(* place of the call: "idle" (no call yet), "loop" (line 414, the head of  *)
(* the for loop), "SelectProcessor" (423), "SelectMainboard" (441),        *)
(* "SelectRemaining" (468, at part type k of remaining_part_types),        *)
(* "Validate" (492), "Score" (496), "returned" (525) and "raised" (an      *)
(* exception that is no ValueError left the call).  The model's answer     *)
(* model.predict(df)[0] is an input of the Score step.                     *)
(***************************************************************************)
\* The list of line 467 without its last part type.
RemainingPartTypesWithoutCooler == <<"GPU", "RAM", "Storage", "PSU", "Case">>

\* backend.py:467
remaining_part_types == <<"GPU", "RAM", "Storage", "PSU", "Case", "Cooler">>

\* What model.predict gives: it raises, or it returns a number.
Predictions ==
    {[raises |-> TRUE, value |-> 0], [raises |-> FALSE, value |-> -1],
     [raises |-> FALSE, value |-> 99]}

MlIdle ==
    [pc |-> "idle", budget |-> 0, scenario |-> "none", num_samples |-> 0, top_n |-> 0,
     i |-> 0, k |-> 0, current_sampled_build |-> <<>>, current_total_cost |-> 0,
     temp_budget |-> 0, all_valid_ml_builds |-> <<>>, ret |-> <<>>, log |-> <<>>]

\* backend.py:434,460,479: selected = df.sample(1).iloc[0].to_dict(), then
\* the build, the cost and temp_budget are updated.
MlAdd(loc, part_type, part) ==
    [loc EXCEPT !.current_sampled_build = (part_type :> part) @@ @,
                !.current_total_cost = @ + part.price,
                !.temp_budget = @ - part.price]

\* backend.py:485-489, 509-512: the sample is over (except ValueError:
\* continue, or the end of the loop body).  The locals of the sample are
\* dead then (lines 415-420 assign them anew) and are cleared here.  log
\* holds what the code prints when a sample ends: "aborted" (line 487),
\* "invalid" (line 512), "unscored" (line 510) or "scored" (line 499).
MlContinue(loc, outcome) ==
    [loc EXCEPT !.pc = "loop", !.i = @ + 1, !.k = 0, !.current_sampled_build = <<>>,
                !.current_total_cost = 0, !.temp_budget = 0,
                !.log = Append(@, outcome)]

\* Lines 509-510 taken as a break: the loop is left when a score is missing.
MlUnscoredBreaks(loc) ==
    [MlContinue(loc, "unscored") EXCEPT !.i = loc.num_samples]

\* backend.py:509-510: predict_build_score gave None; the sample is skipped.
MlUnscored(loc) == MlContinue(loc, "unscored")

\* backend.py:428-431
MlCpuCandidates(cpu_df, temp_budget) ==
    LET affordable_cpus == PriceAtMost(cpu_df, temp_budget, 40)
    IN IF Len(affordable_cpus) = 0 THEN Cheapest(cpu_df) ELSE affordable_cpus

\* The mainboard stage of a sample without its socket test.
MlMotherboardCandidatesAnySocket(motherboard_df, socket, temp_budget) ==
    LET compatible_motherboards == PriceAtMost(motherboard_df, temp_budget, 50)
    IN IF Len(compatible_motherboards) = 0 THEN Cheapest(motherboard_df)
       ELSE compatible_motherboards

\* backend.py:449-457
MlMotherboardCandidates(motherboard_df, socket, temp_budget) ==
    LET compatible_motherboards ==
            PriceAtMost(SocketIs(motherboard_df, socket), temp_budget, 50)
    IN IF Len(compatible_motherboards) = 0
       THEN Cheapest(SocketIs(motherboard_df, socket))
       ELSE compatible_motherboards

\* backend.py:472-479: the rows the step chooses from.
MlPartCandidates(df, temp_budget) ==
    LET affordable_parts == PriceAtMost(df, temp_budget, 100)
    IN IF Len(affordable_parts) = 0 THEN Cheapest(df) ELSE affordable_parts

\* Line 492 without its budget test.
MlValidAnyCost(loc) == TRUE

\* backend.py:492
MlValid(loc) == loc.current_total_cost <= loc.budget

\* predict_build_score without lines 566-568: a negative prediction is kept.
PredictBuildScoreUnclamped(prediction) ==
    IF prediction.raises THEN [is_none |-> TRUE, value |-> 0]
    ELSE [is_none |-> FALSE, value |-> prediction.value]

\* backend.py:563-573: the value of predict_build_score for what model.predict
\* gave: None when it raised, else the prediction, a negative one clamped to 0.
predict_build_score(prediction) ==
    IF prediction.raises THEN [is_none |-> TRUE, value |-> 0]
    ELSE [is_none |-> FALSE,
          value |-> IF prediction.value < 0 THEN 0 ELSE prediction.value]

\* The sort without reverse=True: lowest score first.
RECURSIVE SortByScoreAscending(_)
SortByScoreAscending(builds) ==
    IF Len(builds) = 0 THEN <<>>
    ELSE LET rest == SortByScoreAscending(SubSeq(builds, 1, Len(builds) - 1))
             b == builds[Len(builds)]
             low == SelectSeq(rest, LAMBDA x : x["_ml_score"] <= b["_ml_score"])
             high == SelectSeq(rest, LAMBDA x : x["_ml_score"] > b["_ml_score"])
         IN low \o <<b>> \o high

\* A sort that is not stable: a build goes before the builds of equal score.
RECURSIVE InsertByScoreBeforeEqual(_, _)
InsertByScoreBeforeEqual(sorted, b) ==
    IF Len(sorted) = 0 THEN <<b>>
    ELSE IF Head(sorted)["_ml_score"] > b["_ml_score"]
         THEN <<Head(sorted)>> \o InsertByScoreBeforeEqual(Tail(sorted), b)
         ELSE <<b>> \o sorted

\* backend.py:515: list.sort(key=_ml_score, reverse=True), a stable sort.
RECURSIVE InsertByScore(_, _)
InsertByScore(sorted, b) ==
    IF Len(sorted) = 0 THEN <<b>>
    ELSE IF Head(sorted)["_ml_score"] >= b["_ml_score"]
         THEN <<Head(sorted)>> \o InsertByScore(Tail(sorted), b)
         ELSE <<b>> \o sorted

RECURSIVE SortByScore(_)
SortByScore(builds) ==
    IF Len(builds) = 0 THEN <<>>
    ELSE InsertByScore(SortByScore(SubSeq(builds, 1, Len(builds) - 1)),
                       builds[Len(builds)])

\* backend.py:518: all_valid_ml_builds[:top_n], top_n >= 0
TopN(builds, top_n) ==
    SubSeq(builds, 1, IF top_n < Len(builds) THEN top_n ELSE Len(builds))

\* The loop with one sample too many: range(num_samples + 1).
MlMoreSamplesOffByOne(loc) == loc.i <= loc.num_samples

\* backend.py:414: the loop runs while i is in range(num_samples).
MlMoreSamples(loc) == loc.i < loc.num_samples

(***************************************************************************)
(* The state after Backend.__init__ (backend.py:34-52) and the calls.      *)
(* The calls are made one after the other: a call starts when no return    *)
(* value is outstanding (NoCall), and Discard is the caller dropping the   *)
(* value it was given.                                                     *)
(***************************************************************************)
TiersIdle == [called |-> FALSE, budget |-> 0, result |-> <<>>]

\* app.py:333: budget_var = tk.StringVar(), the empty text; no worker thread
\* and no message box yet.  worker is the place of the thread started at
\* app.py:1373: "none", "started" (line 1380 next), "smart" (1384), "ml"
\* (1388), "sampling" (inside the call of line 1390), "display" (1398), or
\* "died" (an exception left _run_smart_recommendation).
AppIdle ==
    [budget_var |-> "", worker |-> "none", budget |-> 0, scenario |-> "none",
     error |-> "none"]

SmartIdle == SmartLocals("none", 0)

SelIdle == [calls |-> 0, part_type |-> NoPartType, part_weights |-> <<>>,
            ranges |-> <<>>, parts_df |-> <<>>, first |-> None, second |-> None]

Budgets == 1..MaxBudget

NoCall ==
    /\ recommendations = TiersIdle
    /\ smart = SmartIdle
    /\ sel = SelIdle
    /\ ml.pc = "idle"

\* The scenario names a caller passes: the five of the application and one
\* that is none of them.
ScenarioNames == scenarios \cup {"Streaming"}

Init ==
    /\ parts_data \in Catalogs
    /\ normalization_ranges = precompute_normalization_ranges(parts_data)
    /\ ml_models = scenarios
    /\ recommendations = TiersIdle
    /\ smart = SmartIdle
    /\ sel = SelIdle
    /\ ml = MlIdle
    /\ app = AppIdle

\* recommend_builds_rule_based(budget)
RecommendBuildsRuleBased ==
    /\ NoCall
    /\ \E budget \in Budgets :
          recommendations' =
              [called |-> TRUE, budget |-> budget,
               result |-> recommend_builds_rule_based(parts_data, budget)]
    /\ UNCHANGED <<app, parts_data, normalization_ranges, ml_models, smart, sel, ml>>

\* generate_smart_recommendation_rule_based(scenario, budget)
GenerateSmartRecommendation ==
    /\ NoCall
    /\ \E scenario \in ScenarioNames, budget \in Budgets :
          smart' = generate_smart_recommendation_rule_based(
                       parts_data, normalization_ranges, scenario, budget)
    /\ parts_data' = WriteThroughAll(parts_data, DOMAIN smart'.scored, smart'.scored)
    /\ UNCHANGED <<app, normalization_ranges, ml_models, recommendations, sel, ml>>

\* _select_best_part_by_score(parts_df, part_weights, normalization_ranges,
\* part_type) on a fresh copy parts_df of some rows of a table of the catalog.
SelectBestPart ==
    /\ NoCall
    /\ UNCHANGED <<app, normalization_ranges, ml_models, recommendations, smart, ml>>
    /\ \E part_type \in DOMAIN parts_data, scenario \in scenarios :
      \E parts_df \in SubSeqs(parts_data[part_type], Len(parts_data[part_type])) :
        LET part_weights == PartWeights(scenario, part_type) IN
        sel' = [calls |-> 1, part_type |-> part_type, part_weights |-> part_weights,
                ranges |-> normalization_ranges,
                parts_df |-> SelectedTable(parts_df, part_weights,
                                           normalization_ranges, part_type),
                first |-> select_best_part_by_score(parts_df, part_weights,
                              normalization_ranges, part_type),
                second |-> None]
    /\ parts_data' = WriteThrough(parts_data, Shares(sel'.part_type), sel'.parts_df)

\* The same call again, on the table as the first call left it.
SelectBestPartAgain ==
    /\ sel.calls = 1
    /\ sel' = [sel EXCEPT
                 !.calls = 2,
                 !.parts_df = SelectedTable(sel.parts_df, sel.part_weights,
                                            sel.ranges, sel.part_type),
                 !.second = select_best_part_by_score(sel.parts_df, sel.part_weights,
                                sel.ranges, sel.part_type)]
    /\ parts_data' = WriteThrough(parts_data, Shares(sel.part_type), sel'.parts_df)
    /\ UNCHANGED <<app, normalization_ranges, ml_models, recommendations, smart, ml>>

\* The tables of some rows of df in any order, without repetition.
Orderings(df) ==
    {t \in UNION {[1..n -> Range(df)] : n \in 1..Len(df)} :
        \A j \in DOMAIN t, k \in DOMAIN t : j # k => t[j] # t[k]}

\* Weight maps under which no feature of a row can be scored: the empty map
\* (weights.get(part_type, {}) of a part type without weights) and a map that
\* names a column no table holds.
UnscorableWeights == {<<>>, [benchmark |-> 50]}

\* _select_best_part_by_score called with a candidate table in any row order
\* and a weight map none of whose features the rows hold.
SelectBestPartUnscorable ==
    /\ NoCall
    /\ UNCHANGED <<app, normalization_ranges, ml_models, recommendations, smart, ml>>
    /\ \E part_type \in DOMAIN parts_data \cap {"CPU", "GPU"},
          part_weights \in UnscorableWeights :
      \E parts_df \in Orderings(parts_data[part_type]) :
        sel' = [calls |-> 1, part_type |-> part_type, part_weights |-> part_weights,
                ranges |-> normalization_ranges,
                parts_df |-> SelectedTable(parts_df, part_weights,
                                           normalization_ranges, part_type),
                first |-> select_best_part_by_score(parts_df, part_weights,
                              normalization_ranges, part_type),
                second |-> None]
    /\ parts_data' = WriteThrough(parts_data, Shares(sel'.part_type), sel'.parts_df)

\* The range table without the entry of key.
WithoutRange(ranges, key) == [k \in DOMAIN ranges \ {key} |-> ranges[k]]

\* _select_best_part_by_score called with a range table that has no entry
\* for one of the weighted features (lines 616-620).
SelectBestPartMissingRange ==
    /\ NoCall
    /\ UNCHANGED <<app, normalization_ranges, ml_models, recommendations, smart, ml>>
    /\ \E part_type \in DOMAIN parts_data, scenario \in scenarios :
      \E parts_df \in SubSeqs(parts_data[part_type], Len(parts_data[part_type])) :
        LET part_weights == PartWeights(scenario, part_type) IN
        \E feature \in DOMAIN part_weights :
          LET ranges == WithoutRange(normalization_ranges,
                                     RangeKey(part_type, feature)) IN
          sel' = [calls |-> 1, part_type |-> part_type, part_weights |-> part_weights,
                  ranges |-> ranges,
                  parts_df |-> SelectedTable(parts_df, part_weights, ranges, part_type),
                  first |-> select_best_part_by_score(parts_df, part_weights,
                                ranges, part_type),
                  second |-> None]
    /\ parts_data' = WriteThrough(parts_data, Shares(sel'.part_type), sel'.parts_df)

\* The caller is done with the value a call returned.
Discard ==
    /\ ml.pc = "idle"
    /\ ~NoCall
    /\ recommendations' = TiersIdle
    /\ smart' = SmartIdle
    /\ sel' = SelIdle
    /\ UNCHANGED <<app, parts_data, normalization_ranges, ml_models, ml>>

Next ==
    \/ RecommendBuildsRuleBased
    \/ GenerateSmartRecommendation
    \/ SelectBestPart
    \/ SelectBestPartUnscorable
    \/ SelectBestPartMissingRange
    \/ SelectBestPartAgain
    \/ Discard

Spec == Init /\ [][Next]_vars

(***************************************************************************)
(* The steps of generate_ml_based_recommendations.                         *)
(***************************************************************************)
MlBudgets == 1..MaxMlBudget

\* The catalogs of the specification of the sampling call: few rows, so
\* that the samples of a call can be followed one by one.
MlBaseCatalog ==
    [PoolCatalog EXCEPT !["CPU"] = SubSeq(CpuPool, 1, 2),
                        !["Motherboard"] = SubSeq(MotherboardPool, 1, 2),
                        !["RAM"] = SubSeq(RamPool, 1, 1)]

MlCatalogs ==
    {MlBaseCatalog, NoSocketCatalog,
     [MlBaseCatalog EXCEPT !["CPU"] = SubSeq(CpuPool, 1, 1),
                           !["Motherboard"] = SubSeq(MotherboardPool, 2, 2)]}
    \cup {Degrade(MlBaseCatalog, part_type, how) :
             part_type \in PartTypes, how \in {"absent", "empty"}}

InitMl ==
    /\ parts_data \in MlCatalogs
    /\ normalization_ranges = precompute_normalization_ranges(parts_data)
    /\ ml_models \in {scenarios, scenarios \ {"Gaming"}}
    /\ recommendations = TiersIdle
    /\ smart = SmartIdle
    /\ sel = SelIdle
    /\ ml = MlIdle
    /\ app = AppIdle

\* backend.py:405-412: the call and its first lines.
MlCall ==
    /\ NoCall
    /\ \E budget \in MlBudgets, scenario \in {"Gaming"},
          num_samples \in 0..MaxSamples, top_n \in 0..MaxTopN :
          LET loc == [MlIdle EXCEPT !.budget = budget, !.scenario = scenario,
                                    !.num_samples = num_samples, !.top_n = top_n]
          IN ml' = IF scenario \notin ml_models
                   THEN [loc EXCEPT !.pc = "returned", !.ret = <<>>]
                   ELSE [loc EXCEPT !.pc = "loop"]
    /\ UNCHANGED <<app, parts_data, normalization_ranges, ml_models, recommendations,
                   smart, sel>>

\* backend.py:414-420: the next sample starts.
MlNextSample ==
    /\ ml.pc = "loop"
    /\ MlMoreSamples(ml)
    /\ ml' = [ml EXCEPT !.pc = "SelectProcessor", !.current_sampled_build = <<>>,
                        !.current_total_cost = 0, !.temp_budget = ml.budget]
    /\ UNCHANGED <<app, parts_data, normalization_ranges, ml_models, recommendations,
                   smart, sel>>

\* backend.py:514-525: the loop is over; sort, cut, return.
MlReturn ==
    /\ ml.pc = "loop"
    /\ ~MlMoreSamples(ml)
    /\ ml' = [ml EXCEPT !.pc = "returned",
                        !.all_valid_ml_builds = SortByScore(@),
                        !.ret = TopN(SortByScore(ml.all_valid_ml_builds), ml.top_n)]
    /\ UNCHANGED <<app, parts_data, normalization_ranges, ml_models, recommendations,
                   smart, sel>>

\* backend.py:423-439
MlSelectProcessor ==
    /\ ml.pc = "SelectProcessor"
    /\ IF "CPU" \notin DOMAIN parts_data \/ Len(parts_data["CPU"]) = 0
       THEN ml' = MlContinue(ml, "aborted")
       ELSE \E selected_cpu_part \in
                  Range(MlCpuCandidates(parts_data["CPU"], ml.temp_budget)) :
              ml' = [MlAdd(ml, "CPU", selected_cpu_part) EXCEPT !.pc = "SelectMainboard"]
    /\ UNCHANGED <<app, parts_data, normalization_ranges, ml_models, recommendations,
                   smart, sel>>

\* backend.py:441-464
MlSelectMainboard ==
    /\ ml.pc = "SelectMainboard"
    /\ LET selected_cpu_part == ml.current_sampled_build["CPU"] IN
       IF \/ "Motherboard" \notin DOMAIN parts_data
          \/ Len(parts_data["Motherboard"]) = 0
          \/ "socket" \notin DOMAIN selected_cpu_part
       THEN ml' = MlContinue(ml, "aborted")
       ELSE IF ~HasColumn(parts_data["Motherboard"], "socket")
            THEN ml' = [ml EXCEPT !.pc = "raised"]
            ELSE LET compatible_motherboards ==
                         MlMotherboardCandidates(parts_data["Motherboard"],
                             selected_cpu_part.socket, ml.temp_budget)
                 IN IF Len(compatible_motherboards) = 0
                    THEN ml' = MlContinue(ml, "aborted")
                    ELSE \E selected_mb_part \in Range(compatible_motherboards) :
                           ml' = [MlAdd(ml, "Motherboard", selected_mb_part)
                                    EXCEPT !.pc = "SelectRemaining", !.k = 1]
    /\ UNCHANGED <<app, parts_data, normalization_ranges, ml_models, recommendations,
                   smart, sel>>

\* backend.py:468-483, for part type k of remaining_part_types
MlSelectRemaining ==
    /\ ml.pc = "SelectRemaining"
    /\ LET part_type == remaining_part_types[ml.k] IN
       IF part_type \notin DOMAIN parts_data \/ Len(parts_data[part_type]) = 0
       THEN ml' = MlContinue(ml, "aborted")
       ELSE \E selected_part \in
                  Range(MlPartCandidates(parts_data[part_type], ml.temp_budget)) :
              ml' = IF ml.k = Len(remaining_part_types)
                    THEN [MlAdd(ml, part_type, selected_part) EXCEPT !.pc = "Validate"]
                    ELSE [MlAdd(ml, part_type, selected_part) EXCEPT !.k = @ + 1]
    /\ UNCHANGED <<app, parts_data, normalization_ranges, ml_models, recommendations,
                   smart, sel>>

\* backend.py:491-492, 511-512
MlValidate ==
    /\ ml.pc = "Validate"
    /\ ml' = IF MlValid(ml) THEN [ml EXCEPT !.pc = "Score"] ELSE MlContinue(ml, "invalid")
    /\ UNCHANGED <<app, parts_data, normalization_ranges, ml_models, recommendations,
                   smart, sel>>

\* backend.py:496-510
MlScore ==
    /\ ml.pc = "Score"
    /\ \E prediction \in Predictions :
          LET predicted_score == predict_build_score(prediction)
              scored == ("_ml_score" :> predicted_score.value)
                            @@ ml.current_sampled_build
          IN ml' = IF predicted_score.is_none THEN MlUnscored(ml)
                   ELSE MlContinue([ml EXCEPT !.all_valid_ml_builds =
                                                   Append(@, scored)], "scored")
    /\ UNCHANGED <<app, parts_data, normalization_ranges, ml_models, recommendations,
                   smart, sel>>

\* The caller is done with what the sampling call returned or raised.
MlDiscard ==
    /\ ml.pc \in {"returned", "raised"}
    /\ ml' = MlIdle
    /\ UNCHANGED <<app, parts_data, normalization_ranges, ml_models, recommendations,
                   smart, sel>>

\* Every call of the model, over the catalogs of InitMl.
NextMl ==
    \/ Next
    \/ MlCall
    \/ MlNextSample
    \/ MlSelectProcessor
    \/ MlSelectMainboard
    \/ MlSelectRemaining
    \/ MlValidate
    \/ MlScore
    \/ MlReturn
    \/ MlDiscard

SpecMl == InitMl /\ [][NextMl]_vars

(***************************************************************************)
(* app.py: the budget entry, the tiered handler and the smart-build        *)
(* worker thread.                                                          *)
(*                                                                         *)
(* budget_var is the text of the budget entry (app.py:333-344, shared with *)
(* the entry of the smart tab, line 1300).  A handler of the GUI runs to   *)
(* its end on the main thread; the worker thread started at line 1373 runs *)
(* beside the main loop, so the user can edit the entry and press buttons  *)
(* between its steps.  One worker thread is followed at a time.            *)
(***************************************************************************)
\* The texts the user types into the budget entry.
BudgetTexts == {"", "abc", "-2", "0", "6", "12"}

\* float(text) for the texts it parses; it raises ValueError for the others.
FloatOf == ("-2" :> -2) @@ ("0" :> 0) @@ ("6" :> 6) @@ ("12" :> 12)

IsFloat(text) == text \in DOMAIN FloatOf

\* app.py:1390, top_n=3
AppTopN == 3

\* app.py:1292-1293: the scenarios the combobox of the smart tab offers (two
\* of the five are followed).
AppScenarios == {"Gaming", "Home Office"}

\* The catalogs of the application's specification.
AppCatalogs == {MlBaseCatalog, NoSocketCatalog}

InitApp ==
    /\ parts_data \in AppCatalogs
    /\ normalization_ranges = precompute_normalization_ranges(parts_data)
    /\ ml_models \in {scenarios, scenarios \ {"Gaming"}}
    /\ recommendations = TiersIdle
    /\ smart = SmartIdle
    /\ sel = SelIdle
    /\ ml = MlIdle
    /\ app = AppIdle

\* The user edits the budget entry (or set_budget, app.py:440-442, does).
EditBudget ==
    /\ \E text \in BudgetTexts \ {app.budget_var} :
          app' = [app EXCEPT !.budget_var = text]
    /\ UNCHANGED <<parts_data, normalization_ranges, ml_models, recommendations,
                   smart, sel, ml>>

\* app.py:484-506, recommend_builds: the handler of the tiered call.
RecommendBuilds ==
    /\ IF ~IsFloat(app.budget_var)
       THEN /\ app' = [app EXCEPT !.error = "Please enter a valid numeric budget."]
            /\ UNCHANGED recommendations
       ELSE LET budget == FloatOf[app.budget_var]
            IN IF budget <= 0
               THEN /\ app' = [app EXCEPT !.error = "Budget must be a positive number."]
                    /\ UNCHANGED recommendations
               ELSE /\ app' = [app EXCEPT !.error = "none"]
                    /\ recommendations' =
                           [called |-> TRUE, budget |-> budget,
                            result |-> recommend_builds_rule_based(parts_data, budget)]
    /\ UNCHANGED <<parts_data, normalization_ranges, ml_models, smart, sel, ml>>

\* app.py:1349-1373, on_generate_smart_clicked: the budget is validated and
\* the worker thread is started; the validated number stays a local of the
\* handler.
OnGenerateSmartClicked ==
    /\ app.worker \in {"none", "died"}
    /\ IF ~IsFloat(app.budget_var)
       THEN app' = [app EXCEPT !.error = "Please enter a valid numeric budget."]
       ELSE IF FloatOf[app.budget_var] <= 0
            THEN app' = [app EXCEPT !.error = "Budget must be a positive number."]
            ELSE app' = [app EXCEPT !.error = "none", !.worker = "started"]
    /\ UNCHANGED <<parts_data, normalization_ranges, ml_models, recommendations,
                   smart, sel, ml>>

\* app.py:1380-1381, on the worker thread: budget = float(self.budget_var.get())
\* and scenario = self.scenario_var.get().  float raises ValueError for a text
\* that is no number, and nothing catches it.
WorkerReadBudget ==
    /\ app.worker = "started"
    /\ IF IsFloat(app.budget_var)
       THEN \E scenario \in AppScenarios :
              app' = [app EXCEPT !.worker = "smart", !.scenario = scenario,
                                 !.budget = FloatOf[app.budget_var]]
       ELSE app' = [app EXCEPT !.worker = "died"]
    /\ UNCHANGED <<parts_data, normalization_ranges, ml_models, recommendations,
                   smart, sel, ml>>

\* app.py:1384: the smart call, on the worker thread.
WorkerSmart ==
    /\ app.worker = "smart"
    /\ smart' = generate_smart_recommendation_rule_based(
                    parts_data, normalization_ranges, app.scenario, app.budget)
    /\ app' = [app EXCEPT !.worker = IF smart'.raised THEN "died" ELSE "ml"]
    /\ parts_data' = WriteThroughAll(parts_data, DOMAIN smart'.scored, smart'.scored)
    /\ UNCHANGED <<normalization_ranges, ml_models, recommendations, sel, ml>>

\* app.py:1388-1395: the sampling call is started when a model is loaded for
\* the scenario (of its 50 samples the model follows MaxSamples).
WorkerMl ==
    /\ app.worker = "ml"
    /\ IF app.scenario \in ml_models
       THEN /\ ml' = [MlIdle EXCEPT !.pc = "loop", !.budget = app.budget,
                                    !.scenario = app.scenario,
                                    !.num_samples = MaxSamples, !.top_n = AppTopN]
            /\ app' = [app EXCEPT !.worker = "sampling"]
       ELSE /\ app' = [app EXCEPT !.worker = "display"]
            /\ UNCHANGED ml
    /\ UNCHANGED <<parts_data, normalization_ranges, ml_models, recommendations,
                   smart, sel>>

\* app.py:1390-1398: the sampling call is over (an exception of it is caught
\* at line 1391), the results are handed to the main thread, and the thread
\* ends.
WorkerDone ==
    /\ \/ app.worker = "display"
       \/ app.worker = "sampling" /\ ml.pc \in {"returned", "raised"}
    /\ app' = [app EXCEPT !.worker = "none", !.budget = 0, !.scenario = "none"]
    /\ smart' = SmartIdle
    /\ ml' = MlIdle
    /\ UNCHANGED <<parts_data, normalization_ranges, ml_models, recommendations, sel>>

NextApp ==
    \/ EditBudget
    \/ RecommendBuilds
    \/ OnGenerateSmartClicked
    \/ WorkerReadBudget
    \/ WorkerSmart
    \/ WorkerMl
    \/ MlNextSample
    \/ MlSelectProcessor
    \/ MlSelectMainboard
    \/ MlSelectRemaining
    \/ MlValidate
    \/ MlScore
    \/ MlReturn
    \/ WorkerDone

SpecApp == InitApp /\ [][NextApp]_vars

(***************************************************************************)
(* Properties.                                                             *)
(***************************************************************************)
\* The sum of the prices of the parts of a build (a build of the sampling
\* call also holds its score, under "_ml_score").
SumOfPrices(parts) ==
    LET types == DOMAIN parts \ {"_ml_score"}
    IN SumSet(types, [part_type \in types |-> parts[part_type].price])

\* C1: every build the tiered rule assembler returns, of any of the three
\* tiers, has cost <= budget, and its cost is the sum of the prices of its
\* parts.
C1_TieredCostWithinBudget ==
    recommendations.called =>
        \A k \in 1..Len(recommendations.result) :
            /\ recommendations.result[k].cost = SumOfPrices(recommendations.result[k].parts)
            /\ recommendations.result[k].cost <= recommendations.budget

\* Three builds were returned, the Performance build spends the whole budget
\* and the Budget build does not.
C1_Witness ==
    /\ recommendations.called
    /\ Len(recommendations.result) = 3
    /\ recommendations.result[3].cost = recommendations.budget
    /\ recommendations.result[1].cost < recommendations.budget

\* C2: every build the scenario smart assembler returns has a mainboard of
\* the socket of its processor, whichever branch of the fallback chain chose
\* the mainboard.
C2_SmartSocketsMatch ==
    smart.line = 388 =>
        smart.ret["Motherboard"].socket = smart.ret["CPU"].socket

\* A build was returned whose mainboard the last resort chose (no matching
\* mainboard within 0.4 of the remaining budget) although the catalog holds
\* a cheaper mainboard of the other socket.
C2_Witness ==
    /\ smart.line = 388
    /\ 100 * smart.ret["Motherboard"].price
           > 40 * (smart.budget - smart.ret["CPU"].price)
    /\ \E k \in 1..Len(parts_data["Motherboard"]) :
           /\ parts_data["Motherboard"][k].socket # smart.ret["CPU"].socket
           /\ parts_data["Motherboard"][k].price < smart.ret["Motherboard"].price

\* The smart call went through its processor stage: a processor is in the
\* build and no exception left the call.
SmartCpuChosen ==
    /\ smart.line # 0
    /\ ~smart.raised
    /\ "CPU" \in DOMAIN smart.recommended_build

\* The part types in the order the smart call fills them.
SmartOrder == <<"CPU", "Motherboard">> \o part_types_order

\* The budget that remained when the smart call came to part_type: budget
\* less the prices of the parts chosen before it.
SmartRemainingAt(part_type) ==
    LET earlier == {SmartOrder[j] : j \in {i \in 1..Len(SmartOrder) :
                        \E k \in (i + 1)..Len(SmartOrder) : SmartOrder[k] = part_type}}
        chosen == earlier \cap DOMAIN smart.recommended_build
    IN smart.budget
         - SumSet(chosen, [t \in chosen |-> smart.recommended_build[t].price])

\* The loop of the smart call came to part_type.
SmartCameTo(part_type) ==
    /\ SmartCpuChosen
    /\ \/ part_type \in DOMAIN smart.recommended_build
       \/ smart.part_type = part_type

\* Part_type has rows, none priced within the allocated share of what
\* remained nor within all of it.
SmartNothingFits(part_type) ==
    /\ part_type \in DOMAIN parts_data
    /\ Len(parts_data[part_type]) > 0
    /\ Len(PriceAtMost(parts_data[part_type], SmartRemainingAt(part_type),
                       AllocationPct(smart.scenario, part_type))) = 0
    /\ Len(PriceAtMost(parts_data[part_type], SmartRemainingAt(part_type), 100)) = 0

\* C3: in the smart call, when a remaining part type has rows but none is
\* priced within the allocated share nor within the whole remaining budget,
\* its cheapest row is selected and the call still returns a build.
C3_CheapestFallbackKeepsBuild ==
    \A part_type \in Range(part_types_order) :
        (SmartCameTo(part_type) /\ SmartNothingFits(part_type)) =>
            /\ smart.line = 388
            /\ part_type \in DOMAIN smart.ret
            /\ smart.ret[part_type].name = parts_data[part_type][1].name

\* The mainboards of the catalog with the socket of the chosen processor.
SmartMatching ==
    SocketIs(parts_data["Motherboard"], smart.recommended_build["CPU"].socket)

SmartAfterCpu == smart.budget - smart.recommended_build["CPU"].price

SmartMotherboardChosen == "Motherboard" \in DOMAIN smart.recommended_build

\* The chosen mainboard is within 0.25 of what remained after the processor
\* if a matching one is, else within 0.4 if a matching one is, else it is
\* the cheapest matching one.
SmartMotherboardTier ==
    LET mb == smart.recommended_build["Motherboard"]
    IN IF Len(PriceAtMost(SmartMatching, SmartAfterCpu, 25)) > 0
       THEN 100 * mb.price <= 25 * SmartAfterCpu
       ELSE IF Len(PriceAtMost(SmartMatching, SmartAfterCpu, 40)) > 0
            THEN 100 * mb.price <= 40 * SmartAfterCpu
            ELSE mb.name = SmartMatching[1].name

SmartMotherboardFound ==
    /\ SmartMotherboardChosen
    /\ smart.recommended_build["Motherboard"].socket
           = smart.recommended_build["CPU"].socket
    /\ SmartMotherboardTier

\* C4, as claimed: in the mainboard stage of the smart call a matching
\* mainboard is selected (within 0.25 of remaining, else within 0.4, else
\* the cheapest matching) whenever the catalog holds a mainboard of the
\* processor's socket, for every value of the remaining budget.
C4_MotherboardWheneverMatching ==
    (SmartCpuChosen /\ Len(SmartMatching) > 0) => SmartMotherboardFound

\* C4, amended: that holds when the budget remaining after the processor is
\* positive, and then the stage fails only if no mainboard matches; when
\* nothing remains, the stage chooses a matching mainboard only if one is
\* priced within 0.25 of the (non-positive) remaining budget, else it fails.
C4_MotherboardWhenBudgetRemains ==
    SmartCpuChosen =>
        IF SmartAfterCpu > 0
        THEN IF Len(SmartMatching) > 0 THEN SmartMotherboardFound
             ELSE ~SmartMotherboardChosen
        ELSE IF Len(PriceAtMost(SmartMatching, SmartAfterCpu, 25)) > 0
             THEN SmartMotherboardFound
             ELSE ~SmartMotherboardChosen

\* Budget remained after the processor, no matching mainboard was within 0.4
\* of it, and the cheapest matching mainboard was chosen.
C4_Witness ==
    /\ SmartCpuChosen
    /\ SmartAfterCpu > 0
    /\ Len(PriceAtMost(SmartMatching, SmartAfterCpu, 40)) = 0
    /\ SmartMotherboardChosen
    /\ smart.recommended_build["Motherboard"].name = SmartMatching[1].name

\* C5: the list the sampling call returns is sorted by score, highest first,
\* and is no longer than top_n.
C5_MlSortedAndCut ==
    ml.pc = "returned" =>
        /\ Len(ml.ret) <= ml.top_n
        /\ \A j \in 1..Len(ml.ret), k \in 1..Len(ml.ret) :
               j < k => ml.ret[j]["_ml_score"] >= ml.ret[k]["_ml_score"]

\* Two samples were scored, 0 and 99, and top_n = 1 kept the one scored 99.
C5_Witness ==
    /\ ml.pc = "returned"
    /\ ml.top_n = 1
    /\ Len(ml.all_valid_ml_builds) = 2
    /\ ml.all_valid_ml_builds[2]["_ml_score"] = 0
    /\ Len(ml.ret) = 1
    /\ ml.ret[1]["_ml_score"] = 99

\* C6: every build the sampling call keeps or returns has a total cost (the
\* sum of the prices of its eight parts) within the budget, and only a
\* sample within the budget comes to be scored.
C6_MlCostWithinBudget ==
    /\ \A k \in 1..Len(ml.all_valid_ml_builds) :
           /\ DOMAIN ml.all_valid_ml_builds[k] = PartTypes \cup {"_ml_score"}
           /\ SumOfPrices(ml.all_valid_ml_builds[k]) <= ml.budget
    /\ \A k \in 1..Len(ml.ret) :
           /\ DOMAIN ml.ret[k] = PartTypes \cup {"_ml_score"}
           /\ SumOfPrices(ml.ret[k]) <= ml.budget
    /\ ml.pc = "Score" => ml.current_total_cost <= ml.budget

\* A returned build spends the whole budget.
C6_Witness ==
    /\ ml.pc = "returned"
    /\ Len(ml.ret) > 0
    /\ SumOfPrices(ml.ret[1]) = ml.budget

\* Some part type is absent from the catalog or has no rows.
SomeTypeMissing ==
    \E part_type \in PartTypes :
        part_type \notin DOMAIN parts_data \/ Len(parts_data[part_type]) = 0

\* C7: when one of the eight part types is absent from the catalog or has
\* no rows, the tiered call returns no build, the smart call returns no
\* build and the sampling call returns an empty list.
C7_MissingTypeNoBuild ==
    SomeTypeMissing =>
        /\ recommendations.result = <<>>
        /\ smart.line # 388 /\ smart.ret = None /\ ~smart.raised
        /\ ml.all_valid_ml_builds = <<>> /\ ml.ret = <<>> /\ ml.pc # "raised"

\* The Cooler table, a type the smart call does not require in its final
\* check, is absent or empty, and the smart call returned None after it had
\* chosen the seven other parts.
C7_Witness ==
    /\ SomeTypeMissing
    /\ smart.line \in {365, 380}
    /\ smart.part_type = "Cooler"
    /\ DOMAIN smart.recommended_build = PartTypes \ {"Cooler"}

\* C8: with num_samples = 0 the sampling call returns an empty list and
\* raises nothing, whatever the catalog, budget, scenario and top_n.
C8_NoSamplesEmptyList ==
    (ml.pc # "idle" /\ ml.num_samples = 0) =>
        /\ ml.pc \in {"loop", "returned"}
        /\ ml.all_valid_ml_builds = <<>>
        /\ ml.ret = <<>>

\* The call returned with no samples, on a catalog and with a loaded model
\* for which a first sample would raise.
C8_Witness ==
    /\ ml.pc = "returned"
    /\ ml.num_samples = 0
    /\ ml.scenario \in ml_models
    /\ parts_data = NoSocketCatalog

\* Every part type is loaded with exactly one row.
AllSingle ==
    \A part_type \in PartTypes :
        part_type \in DOMAIN parts_data /\ Len(parts_data[part_type]) = 1

\* The sum of the prices of the first rows of the tables.
CatalogSum == SumSet(PartTypes, [part_type \in PartTypes |-> parts_data[part_type][1].price])

\* C9: on a catalog of one row per part type whose prices sum to at most the
\* budget, the tiered call returns exactly three builds, typed Budget,
\* Balanced, Performance in this order, each of the same parts (the sole
\* rows) and of the same cost, and each with remaining = budget - cost.
C9_SingleRowThreeEqualBuilds ==
    (recommendations.called /\ AllSingle /\ CatalogSum <= recommendations.budget) =>
        /\ Len(recommendations.result) = 3
        /\ \A k \in 1..Len(recommendations.result) :
               /\ recommendations.result[k].type = BuildType(k - 1)
               /\ recommendations.result[k].parts =
                      [part_type \in PartTypes |-> parts_data[part_type][1]]
               /\ recommendations.result[k].cost = CatalogSum
               /\ recommendations.result[k].remaining =
                      recommendations.budget - recommendations.result[k].cost

\* The call was made on a one-row catalog whose prices sum to the budget
\* exactly, and three builds came back with nothing remaining.
C9_Witness ==
    /\ recommendations.called
    /\ AllSingle
    /\ CatalogSum = recommendations.budget
    /\ Len(recommendations.result) = 3
    /\ recommendations.result[3].remaining = 0

\* C10: the weighted selector, called a second time on the candidate table as
\* the first call left it, with the same weight map, ranges and part type,
\* returns the record the first call returned.
C10_SelectorTwiceSameRecord ==
    sel.calls = 2 => sel.second = sel.first

\* The selector was called twice on a table of more than one row and chose a
\* row that is not the cheapest.
C10_Witness ==
    /\ sel.calls = 2
    /\ Len(sel.parts_df) > 1
    /\ sel.second # None
    /\ sel.second = sel.parts_df[Len(sel.parts_df)]
    /\ sel.second.price > sel.parts_df[1].price

\* The selector was called and no row of its table holds a number for any
\* feature of the weight map.
SelNothingScored ==
    /\ sel.calls >= 1
    /\ Len(sel.parts_df) > 0
    /\ \A k \in 1..Len(sel.parts_df) :
           \A f \in DOMAIN sel.part_weights : f \notin NumericColumns(sel.parts_df[k])

\* C11: when no feature of the weight map can be scored for any candidate,
\* the weighted selector returns the lowest-priced candidate, whatever the
\* order of the candidates.
C11_UnscorableLowestPriced ==
    SelNothingScored =>
        \A k \in 1..Len(sel.parts_df) : sel.first.price <= sel.parts_df[k].price

\* C12: when the scorer fails for a sample of the sampling call, only that
\* sample is left out: the call does not raise, every sample of the call is
\* still run, each sample that was scored is kept, and what is returned is
\* the top_n, by score, of the samples that were scored.
C12_ScorerFailureIsolated ==
    /\ Len(ml.all_valid_ml_builds) =
           Cardinality({j \in 1..Len(ml.log) : ml.log[j] = "scored"})
    /\ (\E j \in 1..Len(ml.log) : ml.log[j] = "unscored") => ml.pc # "raised"
    /\ (ml.pc = "returned" /\ ml.scenario \in ml_models) =>
           /\ Len(ml.log) = ml.num_samples
           /\ ml.ret = TopN(SortByScore(ml.all_valid_ml_builds), ml.top_n)
           /\ Len(ml.ret) = IF Len(ml.all_valid_ml_builds) < ml.top_n
                            THEN Len(ml.all_valid_ml_builds) ELSE ml.top_n

\* The scorer failed for the first sample, the second sample was scored and
\* is the one build returned.
C12_Witness ==
    /\ ml.pc = "returned"
    /\ ml.log = <<"unscored", "scored">>
    /\ Len(ml.ret) = 1

\* C13: every build the sampling call keeps or returns carries a score >= 0;
\* a negative prediction is clamped to 0 before it is attached.
C13_MlScoreNonNegative ==
    /\ \A k \in 1..Len(ml.all_valid_ml_builds) :
           ml.all_valid_ml_builds[k]["_ml_score"] >= 0
    /\ \A k \in 1..Len(ml.ret) : ml.ret[k]["_ml_score"] >= 0

\* A build is returned with the score 0: the scorer predicted -1 for it, the
\* only prediction of the model that gives 0.
C13_Witness ==
    /\ ml.pc = "returned"
    /\ Len(ml.ret) > 0
    /\ ml.ret[Len(ml.ret)]["_ml_score"] = 0

\* C14: no assembler is run with a budget <= 0 (a text that is no number
\* never reaches an assembler): the budget of the tiered call and the budget
\* the worker thread passes to the smart and the sampling call are positive.
C14_AssemblersGetValidBudget ==
    /\ recommendations.called => recommendations.budget > 0
    /\ smart # SmartIdle => smart.budget > 0
    /\ ml.pc # "idle" => ml.budget > 0

\* C15: every build the smart call returns holds a part for each of CPU,
\* Motherboard, RAM, GPU, Storage and PSU; when the call ends anywhere else
\* than at its last line it returns None, never the parts chosen so far.
C15_SmartBuildCompleteOrNone ==
    (smart # SmartIdle /\ ~smart.raised) =>
        IF smart.line = 388
        THEN /\ smart.ret = smart.recommended_build
             /\ required_parts \subseteq DOMAIN smart.ret
        ELSE smart.ret = None

\* The call had chosen CPU, Motherboard, GPU, RAM and Storage when no PSU
\* could be filled, and it returned None.
C15_Witness ==
    /\ smart.line \in {365, 378, 380}
    /\ smart.part_type = "PSU"
    /\ DOMAIN smart.recommended_build = {"CPU", "Motherboard", "GPU", "RAM", "Storage"}
    /\ smart.ret = None

\* The build of the given type in what the tiered call returned, if any.
TierBuildsOfType(type) ==
    {k \in 1..Len(recommendations.result) : recommendations.result[k].type = type}

\* C16: in the tiered call a strategy that reaches a part type with no row
\* priced <= its working budget contributes no build, never a partial one,
\* and every other strategy is still run from the whole budget: a build of
\* strategy i is returned exactly when strategy i, started with the budget
\* of the call, finds a part of every type.
C16_TierFailureIsolated ==
    (recommendations.called /\ AllLoaded(parts_data)) =>
        /\ \A k \in 1..Len(recommendations.result) :
               DOMAIN recommendations.result[k].parts = PartTypes
        /\ \A i \in 0..2 :
               LET alone == TierLoop(i, PART_FILES, parts_data,
                                     recommendations.budget, <<>>, 0)
               IN IF alone.all_parts_found
                  THEN /\ Cardinality(TierBuildsOfType(BuildType(i))) = 1
                       /\ \A k \in TierBuildsOfType(BuildType(i)) :
                              recommendations.result[k].parts = alone.parts
                  ELSE TierBuildsOfType(BuildType(i)) = {}

\* The Balanced strategy failed and the Performance strategy, run after it,
\* still returned its build.
C16_Witness ==
    /\ recommendations.called
    /\ TierBuildsOfType("Balanced Build") = {}
    /\ TierBuildsOfType("Performance Build") # {}

\* The rows of the table of part_type priced <= working, cheapest first.
TierWithin(part_type, working) ==
    SelectSeq(parts_data[part_type], LAMBDA row : row.price <= working)

\* The 0-based index the strategy of the given type takes in a list of len
\* affordable rows: Budget the first, Performance the last, Balanced the one
\* at len div 2 when len >= 2 and the first otherwise.
TierRuleIndex(type, len) ==
    IF type = "Budget Build" THEN 0
    ELSE IF type = "Performance Build" THEN len - 1
    ELSE IF len >= 2 THEN len \div 2 ELSE 0

\* The parts of a build follow the rule from the part types in types on,
\* with the given working budget.
RECURSIVE TierFollowsRule(_, _, _, _)
TierFollowsRule(type, types, working, parts) ==
    IF Len(types) = 0 THEN TRUE
    ELSE LET A == TierWithin(Head(types), working)
         IN /\ Len(A) > 0
            /\ parts[Head(types)] = A[TierRuleIndex(type, Len(A)) + 1]
            /\ TierFollowsRule(type, Tail(types), working - parts[Head(types)].price,
                               parts)

\* C17: in every build of the tiered call, for each part type in the order
\* of PART_FILES and with A the rows priced <= the working budget, cheapest
\* first, the Budget build holds A[0], the Performance build the last row of
\* A and the Balanced build A[len(A) div 2] when len(A) >= 2 and A[0]
\* otherwise; the working budget starts at the budget and goes down by the
\* price of each part chosen.
C17_TierSelectionRule ==
    recommendations.called =>
        \A k \in 1..Len(recommendations.result) :
            TierFollowsRule(recommendations.result[k].type, PART_FILES,
                            recommendations.budget, recommendations.result[k].parts)

\* Three builds on a catalog of three processors: the Budget build holds the
\* cheapest, the Balanced build the middle one, the Performance build the
\* dearest, and the Balanced build holds the second of two affordable GPUs.
C17_Witness ==
    /\ recommendations.called
    /\ Len(recommendations.result) = 3
    /\ Len(parts_data["CPU"]) = 3
    /\ recommendations.result[1].parts["CPU"] = parts_data["CPU"][1]
    /\ recommendations.result[2].parts["CPU"] = parts_data["CPU"][2]
    /\ recommendations.result[3].parts["CPU"] = parts_data["CPU"][3]
    /\ Len(parts_data["GPU"]) = 2
    /\ recommendations.result[2].parts["GPU"] = parts_data["GPU"][2]

SmartCpuStage ==
    /\ smart # SmartIdle
    /\ {"CPU", "Motherboard"} \subseteq DOMAIN parts_data
    /\ Len(parts_data["CPU"]) > 0
    /\ smart.budget > 0

\* The processors priced <= pct hundredths of the budget of the smart call.
SmartCpuWithin(pct) ==
    SelectSeq(parts_data["CPU"], LAMBDA row : 100 * row.price <= pct * smart.budget)

\* The processors the claim says the stage chooses among.
SmartCpuTier ==
    IF Len(SmartCpuWithin(25)) > 0 THEN SmartCpuWithin(25)
    ELSE IF Len(SmartCpuWithin(40)) > 0 THEN SmartCpuWithin(40)
    ELSE <<parts_data["CPU"][1]>>

\* C19: in the processor stage of the smart call, for a budget > 0, the
\* processor chosen is priced <= 0.25*budget when some processor is, else
\* priced <= 0.4*budget when some processor is, else it is the cheapest of
\* the catalog; and it is the weighted selector's choice, for the scenario's
\* processor weights, among the processors of that tier.
C19_SmartProcessorTiers ==
    SmartCpuStage =>
        /\ "CPU" \in DOMAIN smart.recommended_build
        /\ smart.recommended_build["CPU"] \in
               {("score" :> smart.recommended_build["CPU"].score) @@ SmartCpuTier[k] :
                    k \in 1..Len(SmartCpuTier)}
        /\ smart.recommended_build["CPU"] =
               select_best_part_by_score(SmartCpuTier,
                   PartWeights(smart.scenario, "CPU"), normalization_ranges, "CPU")

\* No processor is within 0.25 of the budget, some processor is within 0.4
\* of it, and the processor chosen is within 0.4 of it.
C19_Witness ==
    /\ SmartCpuStage
    /\ Len(SmartCpuWithin(25)) = 0
    /\ Len(SmartCpuWithin(40)) > 0
    /\ "CPU" \in DOMAIN smart.recommended_build
    /\ 100 * smart.recommended_build["CPU"].price <= 40 * smart.budget

\* The rows of part_type priced <= pct hundredths of what remained when the
\* smart call came to it.
SmartPartWithin(part_type, pct) ==
    IF part_type \in DOMAIN parts_data
    THEN SelectSeq(parts_data[part_type],
                   LAMBDA row : 100 * row.price <= pct * SmartRemainingAt(part_type))
    ELSE <<>>

\* C20: the smart call fills GPU, RAM, Storage, PSU, Case, Cooler in this
\* order, each against the budget that remains after all parts chosen
\* before it: when some row is priced <= remaining * share of the scenario
\* for the part type the part chosen is priced <= that amount, otherwise
\* when some row is priced <= remaining the part chosen is priced <=
\* remaining.
C20_SmartRemainingPartsByShare ==
    /\ \A j \in 1..Len(part_types_order) :
           part_types_order[j] \in DOMAIN smart.recommended_build =>
               /\ {"CPU", "Motherboard"} \subseteq DOMAIN smart.recommended_build
               /\ \A i \in 1..(j - 1) :
                      part_types_order[i] \in DOMAIN smart.recommended_build
    /\ \A part_type \in Range(part_types_order) :
           SmartCameTo(part_type) =>
               LET pct == AllocationPct(smart.scenario, part_type)
                   remaining == SmartRemainingAt(part_type)
               IN IF Len(SmartPartWithin(part_type, pct)) > 0
                  THEN /\ part_type \in DOMAIN smart.recommended_build
                       /\ 100 * smart.recommended_build[part_type].price
                              <= pct * remaining
                  ELSE Len(SmartPartWithin(part_type, 100)) > 0 =>
                       /\ part_type \in DOMAIN smart.recommended_build
                       /\ smart.recommended_build[part_type].price <= remaining

\* A build was returned in which the GPU is within its share although a
\* dearer GPU was within the remaining budget, and the Cooler, with no row
\* within its share, is within the remaining budget.
C20_Witness ==
    /\ smart.line = 388
    /\ Len(SmartPartWithin("GPU", AllocationPct(smart.scenario, "GPU"))) > 0
    /\ Len(SmartPartWithin("GPU", 100))
           > Len(SmartPartWithin("GPU", AllocationPct(smart.scenario, "GPU")))
    /\ Len(SmartPartWithin("Cooler", AllocationPct(smart.scenario, "Cooler"))) = 0
    /\ smart.ret["Cooler"].price <= SmartRemainingAt("Cooler")

\* The mainboards of the catalog with the socket of the processor of the
\* running sample, cheapest first.
MlMatching ==
    SelectSeq(parts_data["Motherboard"],
              LAMBDA row : row.socket = ml.current_sampled_build["CPU"].socket)

\* C21: in every sample of the sampling call the mainboard chosen has the
\* socket of the processor chosen and is priced <= 0.5 of the budget that
\* remained after the processor, or else is the cheapest mainboard of that
\* socket; a sample goes past its mainboard stage only with such a
\* mainboard, and every build kept or returned has matching sockets.
C21_MlSocketsMatch ==
    /\ "Motherboard" \in DOMAIN ml.current_sampled_build =>
           LET cpu == ml.current_sampled_build["CPU"]
               mb == ml.current_sampled_build["Motherboard"]
           IN /\ mb.socket = cpu.socket
              /\ \/ 100 * mb.price <= 50 * (ml.budget - cpu.price)
                 \/ mb = MlMatching[1]
    /\ ml.pc \in {"SelectRemaining", "Validate", "Score"} =>
           "Motherboard" \in DOMAIN ml.current_sampled_build
    /\ \A k \in 1..Len(ml.all_valid_ml_builds) :
           ml.all_valid_ml_builds[k]["Motherboard"].socket
               = ml.all_valid_ml_builds[k]["CPU"].socket
    /\ \A k \in 1..Len(ml.ret) :
           ml.ret[k]["Motherboard"].socket = ml.ret[k]["CPU"].socket

\* A sample took the cheapest mainboard of the processor's socket, dearer
\* than 0.5 of what remained, from a catalog that also holds a mainboard of
\* another socket.
C21_Witness ==
    /\ ml.pc = "SelectRemaining"
    /\ 100 * ml.current_sampled_build["Motherboard"].price
           > 50 * (ml.budget - ml.current_sampled_build["CPU"].price)
    /\ \E k \in 1..Len(parts_data["Motherboard"]) :
           parts_data["Motherboard"][k].socket # ml.current_sampled_build["CPU"].socket

\* The places a step of the sampling call may lead to from the place pc.
MlStagesAfter(pc) ==
    CASE pc = "idle" -> {"loop", "returned"}
      [] pc = "loop" -> {"SelectProcessor", "returned"}
      [] pc = "SelectProcessor" -> {"SelectMainboard", "loop"}
      [] pc = "SelectMainboard" -> {"SelectRemaining", "loop", "raised"}
      [] pc = "SelectRemaining" -> {"SelectRemaining", "Validate", "loop"}
      [] pc = "Validate" -> {"Score", "loop"}
      [] pc = "Score" -> {"loop"}
      [] OTHER -> {"idle"}

\* C22: within a sample of the sampling call the stages come in the order
\* SelectProcessor, SelectMainboard, SelectRemaining, Validate, Score, each
\* stage able to end the sample; the scorer is called only for a sample that
\* holds a part of all eight types and whose total cost was found <= budget,
\* once, after which the sample is over; a sample that was aborted or was
\* over budget ends without the scorer having been called.
C22_MlStageOrder ==
    /\ [](ml.pc = "Score" =>
            /\ DOMAIN ml.current_sampled_build = PartTypes
            /\ ml.current_total_cost = SumOfPrices(ml.current_sampled_build)
            /\ ml.current_total_cost <= ml.budget)
    /\ [][/\ ml'.pc \in MlStagesAfter(ml.pc)
          /\ ml.pc = "Score" =>
                 /\ ml'.i = ml.i + 1
                 /\ \E outcome \in {"scored", "unscored"} :
                        ml'.log = Append(ml.log, outcome)
          /\ (ml.pc \notin {"Score", "idle", "returned", "raised"}
                 /\ ml'.pc = "loop") =>
                 /\ ml'.i = ml.i + 1
                 /\ \E outcome \in {"aborted", "invalid"} :
                        ml'.log = Append(ml.log, outcome)
                 /\ ml'.all_valid_ml_builds = ml.all_valid_ml_builds
          /\ ml.pc \notin {"Score", "loop", "returned", "raised"} =>
                 ml'.all_valid_ml_builds = ml.all_valid_ml_builds]_ml

\* The second sample of a call is about to be scored after the first was
\* found over budget.
C22_Witness ==
    /\ ml.pc = "Score"
    /\ ml.log = <<"invalid">>
    /\ ml.i = 1

\* C23: the sampling call runs exactly num_samples samples and then returns
\* a result: no call ends otherwise than by returning, and a call that
\* entered the loop returns only when every one of its samples has ended
\* (aborted, over budget, unscored or scored), none of them run twice,
\* whatever the scores and however many builds were already kept.
C23_MlRunsEverySample ==
    /\ ml.pc # "raised"
    /\ ml.pc # "idle" => ml.i <= ml.num_samples /\ Len(ml.log) = ml.i
    /\ (ml.pc = "returned" /\ ml.scenario \in ml_models) =>
           Len(ml.log) = ml.num_samples

\* The place of the j-th scored sample in the descending order that keeps
\* samples of equal score in the order they were made.
MlRank(builds, j) ==
    1 + Cardinality({k \in 1..Len(builds) :
                        builds[k]["_ml_score"] > builds[j]["_ml_score"]})
      + Cardinality({k \in 1..(j - 1) :
                        builds[k]["_ml_score"] = builds[j]["_ml_score"]})

MlStableDescending(builds) ==
    [p \in 1..Len(builds) |->
        builds[CHOOSE j \in 1..Len(builds) : MlRank(builds, j) = p]]

\* C24: the scored samples are kept in the order they were made, and the
\* result of the sampling call is the first top_n of them in descending score
\* order, two of equal score staying in the order of their samples.
C24_MlResultStableTopN ==
    [][/\ (ml.pc = "Score" /\ Len(ml'.all_valid_ml_builds) # Len(ml.all_valid_ml_builds)) =>
              /\ Len(ml'.all_valid_ml_builds) = Len(ml.all_valid_ml_builds) + 1
              /\ SubSeq(ml'.all_valid_ml_builds, 1, Len(ml.all_valid_ml_builds))
                     = ml.all_valid_ml_builds
       /\ (ml.pc = "loop" /\ ml'.pc = "returned") =>
              LET ordered == MlStableDescending(ml.all_valid_ml_builds)
              IN /\ Len(ml'.ret) = (IF ml.top_n < Len(ordered) THEN ml.top_n
                                                               ELSE Len(ordered))
                 /\ \A p \in 1..Len(ml'.ret) : ml'.ret[p] = ordered[p]]_ml

\* A call returned two different builds of equal score.
C24_Witness ==
    /\ ml.pc = "returned"
    /\ Len(ml.ret) = 2
    /\ ml.ret[1]["_ml_score"] = ml.ret[2]["_ml_score"]
    /\ ml.ret[1] # ml.ret[2]

\* The rows of the scored table whose score no row exceeds.
SelBestRows ==
    {k \in 1..Len(sel.parts_df) :
        \A j \in 1..Len(sel.parts_df) : sel.parts_df[j].score <= sel.parts_df[k].score}

C26_TierBudgetFirstAndCheapest ==
    (recommendations.called /\ Len(recommendations.result) > 0) =>
        /\ recommendations.result[1].type = BuildType(0)
        /\ \A k \in 1..Len(recommendations.result) :
              /\ recommendations.result[1].cost <= recommendations.result[k].cost
              /\ k > 1 => recommendations.result[k].type # BuildType(0)

\* A call returned the Budget build and, the Balanced strategy having
\* failed, the Performance build, which costs more.
C26_Witness ==
    /\ recommendations.called
    /\ Len(recommendations.result) = 2
    /\ recommendations.result[2].type = BuildType(2)
    /\ recommendations.result[1].cost < recommendations.result[2].cost

\* The row the last selector call returned.
SelReturned == IF sel.calls = 2 THEN sel.second ELSE sel.first

\* C27: under a weight map whose only feature is price, with a negative
\* weight, the selector returns a row of lowest price among the rows it was
\* given, whatever non-empty part of a table of the catalog these are; the
\* weight maps of Motherboard, Case and Cooler are such maps in every
\* scenario.
C27_PriceOnlyGivesCheapest ==
    (sel.calls >= 1 /\ Len(sel.parts_df) > 0) =>
        /\ (/\ sel.part_type \in {"Motherboard", "Case", "Cooler"}
            /\ \E scenario \in scenarios :
                  sel.part_weights = PartWeights(scenario, sel.part_type)) =>
               /\ DOMAIN sel.part_weights = {"price"}
               /\ sel.part_weights.price < 0
               /\ \A k \in 1..Len(sel.parts_df) :
                      SelReturned.price <= sel.parts_df[k].price
        /\ (DOMAIN sel.part_weights = {"price"} /\ sel.part_weights.price < 0) =>
               /\ \E k \in 1..Len(sel.parts_df) : sel.parts_df[k] = SelReturned
               /\ \A k \in 1..Len(sel.parts_df) :
                      SelReturned.price <= sel.parts_df[k].price

\* A call with the Motherboard weights on two or more mainboards, none of
\* them the cheapest of the catalog, returned the cheaper.
C27_Witness ==
    /\ sel.calls = 1
    /\ sel.part_type = "Motherboard"
    /\ sel.part_weights = [price |-> -100]
    /\ Len(sel.parts_df) >= 2
    /\ sel.first.price > parts_data["Motherboard"][1].price
    /\ \E k \in 1..Len(sel.parts_df) : sel.first.price < sel.parts_df[k].price

SelContributing(k) ==
    {f \in DOMAIN sel.part_weights : f \in NumericColumns(sel.parts_df[k]) \ {"score"}}

SelDen == ScoreDen(sel.part_weights, sel.ranges, sel.part_type)

\* The value that enters the score for feature f of row k, times SelDen.
SelNormalized(k, f) ==
    NormalizedVal(sel.parts_df[k][f], RangeKey(sel.part_type, f), sel.ranges, SelDen)

\* C29, with "including a feature that has no entry in the range table"
\* replaced by what lines 616-620 do: in every selector call, for every row
\* of the table and every weighted feature the row holds a number for, the
\* value that enters the score is, when the range table has an entry for the
\* feature of the part type, in [0,1], equal to (val - min)/(max - min) when
\* max > min and to 0.5 when max = min; when the table has no entry it is the
\* value of the row itself, not rescaled.
C29_RescaledWhenRangeKnown ==
    sel.calls >= 1 =>
        \A k \in 1..Len(sel.parts_df) : \A f \in SelContributing(k) :
            LET key == RangeKey(sel.part_type, f)
                val == sel.parts_df[k][f]
            IN IF key \in DOMAIN sel.ranges
               THEN /\ 0 <= SelNormalized(k, f) /\ SelNormalized(k, f) <= SelDen
                    /\ sel.ranges[key].max = sel.ranges[key].min =>
                           2 * SelNormalized(k, f) = SelDen
                    /\ sel.ranges[key].max > sel.ranges[key].min =>
                           SelNormalized(k, f) * (sel.ranges[key].max - sel.ranges[key].min)
                               = (val - sel.ranges[key].min) * SelDen
               ELSE SelNormalized(k, f) = val * SelDen

\* C29 as stated: in every selector call, for every row and every weighted
\* feature the row holds a number for, with or without an entry in the range
\* table, the value that enters the score is in [0,1], and is 0.5 when the
\* range of the feature has max = min.
C29_AlwaysRescaled ==
    sel.calls >= 1 =>
        \A k \in 1..Len(sel.parts_df) : \A f \in SelContributing(k) :
            LET key == RangeKey(sel.part_type, f)
            IN /\ 0 <= SelNormalized(k, f) /\ SelNormalized(k, f) <= SelDen
               /\ (key \in DOMAIN sel.ranges
                     /\ sel.ranges[key].max = sel.ranges[key].min) =>
                      2 * SelNormalized(k, f) = SelDen

\* A call scored a row with two kinds of feature: one without an entry in
\* the range table, whose value, above 1, entered the score as it is, and one
\* rescaled to a value strictly between 0 and 1 other than 0.5.
C29_Witness ==
    /\ sel.calls = 1
    /\ \E k \in 1..Len(sel.parts_df) :
          /\ \E f \in SelContributing(k) :
                /\ RangeKey(sel.part_type, f) \notin DOMAIN sel.ranges
                /\ sel.parts_df[k][f] > 1
          /\ \E f \in SelContributing(k) :
                /\ RangeKey(sel.part_type, f) \in DOMAIN sel.ranges
                /\ 0 < SelNormalized(k, f) /\ SelNormalized(k, f) < SelDen
                /\ 2 * SelNormalized(k, f) # SelDen

\* What the smart call with the given scenario gives on the catalog and the
\* budget of the call whose result smart holds.
SmartCallWith(scenario) ==
    generate_smart_recommendation_rule_based(parts_data, normalization_ranges,
                                             scenario, smart.budget)

\* C30: a smart call with a scenario name outside the five known ones is not
\* rejected: on every catalog and budget it returns what the call with
\* "General Use" returns, by the same path (same return line, same parts
\* chosen from the same candidates, same cost, same exception if any).
C30_UnknownScenarioIsGeneralUse ==
    (smart.scenario \notin scenarios /\ smart # SmartIdle) =>
        /\ smart.ret = SmartCallWith("General Use").ret
        /\ [smart EXCEPT !.scenario = "General Use"] = SmartCallWith("General Use")
        /\ smart.line \in {269, 285, 298, 316, 318, 329, 365, 375, 378, 380, 386, 388}

\* A call with the scenario "Streaming" returned a build, which is not the
\* build the Gaming scenario gives for the same catalog and budget.
C30_Witness ==
    /\ smart.scenario = "Streaming"
    /\ smart.line = 388
    /\ smart.ret = smart.recommended_build
    /\ SmartCallWith("Gaming").line = 388
    /\ SmartCallWith("Gaming").ret # smart.ret


=============================================================================
